---- MODULE Spec2Model ----
(***************************************************************************)
(* Model of www/webframe.py: the @get/@post tags, the signature analysis   *)
(* (has_request_arg ... get_required_kw_args), add_route and the coroutine *)
(* RequestHandler.__call__ with its suspension points.                     *)
(*                                                                         *)
(* Representation.  A string the code only compares or uses as a key is a  *)
(* TLA+ string.  A content type, which the code lowercases and tests with  *)
(* startswith, is a sequence of one-character strings.  A query string is  *)
(* the sequence of its tokens: the separators "&" and "=" and the words    *)
(* between them.  A message text is a sequence of strings, so that         *)
(* 'fmt %s' % x is the concatenation of the format's text and x.           *)
(***************************************************************************)
EXTENDS Integers, Sequences, FiniteSets, TLC

VARIABLES
    routes,   \* the router's table
    startup,  \* the last add_route call: the function passed, what it raised
    tasks     \* the coroutine frames of __call__, one per request in flight

vars == <<routes, startup, tasks>>

None == "None"

(***************************************************************************)
(* inspect.Parameter kinds, and a parameter of a signature.  default is    *)
(* TRUE when the parameter has a default (param.default is not             *)
(* Parameter.empty).                                                       *)
(***************************************************************************)
POSITIONAL_OR_KEYWORD == "POSITIONAL_OR_KEYWORD"
VAR_POSITIONAL == "VAR_POSITIONAL"
KEYWORD_ONLY == "KEYWORD_ONLY"
VAR_KEYWORD == "VAR_KEYWORD"

Param(name, kind, default) == [name |-> name, kind |-> kind, default |-> default]

\* A plain function: its __name__, its signature, and the two attributes
\* the decorators attach (absent: None).
Def(name, params) ==
    [name |-> name, params |-> params, method |-> None, route |-> None]

\* @get(path): wrapper.__method__ = 'GET', wrapper.__route__ = path;
\* functools.wraps keeps the name and the signature.
get(path, func) == [func EXCEPT !.method = "GET", !.route = path]

\* @post(path)
post(path, func) == [func EXCEPT !.method = "POST", !.route = path]

(***************************************************************************)
(* Signature analysis                                                      *)
(***************************************************************************)
\* The ValueError of has_request_arg: some parameter after `request` is
\* neither *args, nor keyword-only, nor **kw.
has_request_arg_raises(fn) ==
    \E i \in 1..Len(fn.params) : \E j \in (i+1)..Len(fn.params) :
        /\ fn.params[i].name = "request"
        /\ fn.params[j].name # "request"
        /\ fn.params[j].kind # VAR_POSITIONAL
        /\ fn.params[j].kind # KEYWORD_ONLY
        /\ fn.params[j].kind # VAR_KEYWORD

\* The value has_request_arg returns when it does not raise: found.
has_request_arg(fn) ==
    \E i \in 1..Len(fn.params) : fn.params[i].name = "request"

\* True, or None (falsy) when the loop ends: modelled as a boolean.
has_var_kw_arg(fn) ==
    \E i \in 1..Len(fn.params) : fn.params[i].kind = VAR_KEYWORD

has_named_kw_args(fn) ==
    \E i \in 1..Len(fn.params) : fn.params[i].kind = KEYWORD_ONLY

RECURSIVE Names(_)
Names(ps) == IF ps = <<>> THEN <<>> ELSE <<Head(ps).name>> \o Names(Tail(ps))

IsKeywordOnly(p) == p.kind = KEYWORD_ONLY

IsRequiredKeywordOnly(p) == p.kind = KEYWORD_ONLY /\ ~p.default

\* The tuple of the keyword-only parameter names, in declaration order.
get_named_kw_args(fn) == Names(SelectSeq(fn.params, IsKeywordOnly))

\* The tuple of the keyword-only parameter names without default.
get_required_kw_args(fn) == Names(SelectSeq(fn.params, IsRequiredKeywordOnly))

\* RequestHandler.__init__ (when has_request_arg does not raise).
RequestHandler(fn) ==
    [func |-> fn,
     has_request_arg |-> has_request_arg(fn),
     has_var_kw_arg |-> has_var_kw_arg(fn),
     has_named_kw_args |-> has_named_kw_args(fn),
     named_kw_args |-> get_named_kw_args(fn),
     required_kw_args |-> get_required_kw_args(fn)]

(***************************************************************************)
(* Registration.  The router's table is the sequence of the                *)
(* app.router.add_route(method, path, handler) calls made so far.          *)
(***************************************************************************)
ValueError(text) ==
    [type |-> "ValueError", error |-> "", data |-> "", message |-> text]

NoException ==
    [type |-> None, error |-> "", data |-> "", message |-> <<>>]

\* Variant of add_route: the route is added before the handler's signature
\* is looked at.
add_route_CheckLast(table, fn) ==
    IF fn.route = None \/ fn.method = None
    THEN [raised |-> ValueError(<<"@get or @post not define in ", fn.name, ".">>),
          routes |-> table]
    ELSE [raised |-> IF has_request_arg_raises(fn)
                     THEN ValueError(<<"request parameter must be the last named parameter in function: ", fn.name>>)
                     ELSE NoException,
          routes |-> Append(table, [method |-> fn.method, path |-> fn.route,
                                    handler |-> RequestHandler(fn)])]

\* add_route(app, fn): the exception it raises (NoException: none) and the
\* table it leaves.  RequestHandler(app, fn) is evaluated, and may raise,
\* before app.router.add_route is entered.
add_route(table, fn) ==
    IF fn.route = None \/ fn.method = None
    THEN [raised |-> ValueError(<<"@get or @post not define in ", fn.name, ".">>),
          routes |-> table]
    ELSE IF has_request_arg_raises(fn)
    THEN [raised |-> ValueError(<<"request parameter must be the last named parameter in function: ", fn.name>>),
          routes |-> table]
    ELSE [raised |-> NoException,
          routes |-> Append(table, [method |-> fn.method, path |-> fn.route,
                                    handler |-> RequestHandler(fn)])]

RECURSIVE add_routes(_, _)
\* add_routes(app, module_name), the module given as the sequence of its
\* public callable attributes in dir() order: add_route for every one that
\* carries both tags, up to the first add_route that raises.
add_routes(table, module) ==
    IF module = <<>> THEN [raised |-> NoException, routes |-> table]
    ELSE IF Head(module).method # None /\ Head(module).route # None
    THEN IF add_route(table, Head(module)).raised # NoException
         THEN add_route(table, Head(module))
         ELSE add_routes(add_route(table, Head(module)).routes, Tail(module))
    ELSE add_routes(table, Tail(module))

(***************************************************************************)
(* The request object the transport hands to __call__:                     *)
(*   id            the identity of the object (a string)                   *)
(*   method        'GET', 'POST', ...                                      *)
(*   content_type  a sequence of characters, <<>> when there is none       *)
(*   body          [kind, fields]: what the body text is, and the fields   *)
(*                 (a sequence of <<key, value>>) it carries               *)
(*   query_string  a sequence of tokens                                    *)
(*   match_info    the path segments the router matched (name -> value)    *)
(***************************************************************************)
Request(id, method, content_type, body, query_string, match_info) ==
    [id |-> id, method |-> method, content_type |-> content_type,
     body |-> body, query_string |-> query_string, match_info |-> match_info]

Body(kind, fields) == [kind |-> kind, fields |-> fields]

\* An exception object; APIError carries error, data and message.
Exception(type) == [type |-> type, error |-> "", data |-> "", message |-> <<>>]

APIError(error, data, message) ==
    [type |-> "APIError", error |-> error, data |-> data, message |-> <<message>>]

RECURSIVE PairsToDict(_)
\* The mapping of a sequence of <<key, value>> with distinct keys.
PairsToDict(pairs) ==
    IF pairs = <<>> THEN <<>>
    ELSE (Head(pairs)[1] :> Head(pairs)[2]) @@ PairsToDict(Tail(pairs))

Keys(pairs) == {pairs[i][1] : i \in 1..Len(pairs)}

HasDuplicateKey(pairs) ==
    \E i \in 1..Len(pairs) : \E j \in (i+1)..Len(pairs) : pairs[i][1] = pairs[j][1]

\* await request.json(): the JSON value of the body text, or the exception
\* the read or the decoder raises.  isdict: isinstance(params, dict).
request_json(request) ==
    CASE request.body.kind = "abort" ->
            [raised |-> Exception("ConnectionResetError"), isdict |-> FALSE, value |-> <<>>]
      [] request.body.kind = "object" ->
            [raised |-> NoException, isdict |-> TRUE,
             value |-> PairsToDict(request.body.fields)]
      [] request.body.kind = "array" ->
            [raised |-> NoException, isdict |-> FALSE, value |-> <<>>]
      [] OTHER ->
            [raised |-> Exception("JSONDecodeError"), isdict |-> FALSE, value |-> <<>>]

\* await request.post(): the MultiDict of the form fields (a sequence of
\* <<key, value>>, keys may repeat), or the exception the read raises.  A
\* body that is no form carries no form field.
request_post(request) ==
    CASE request.body.kind = "abort" ->
            [raised |-> Exception("ConnectionResetError"), value |-> <<>>]
      [] request.body.kind = "form" ->
            [raised |-> NoException, value |-> request.body.fields]
      [] OTHER ->
            [raised |-> NoException, value |-> <<>>]

\* dict(**params) of a MultiDict: a repeated key is a TypeError ("got
\* multiple values for keyword argument").
dict_of(params) ==
    IF HasDuplicateKey(params)
    THEN [raised |-> Exception("TypeError"), value |-> <<>>]
    ELSE [raised |-> NoException, value |-> PairsToDict(params)]

(***************************************************************************)
(* str.lower and str.startswith on sequences of characters                 *)
(***************************************************************************)
UpperCase == <<"A", "B", "C", "D", "E", "F", "G", "H", "I", "J", "K", "L", "M",
               "N", "O", "P", "Q", "R", "S", "T", "U", "V", "W", "X", "Y", "Z">>

LowerCase == <<"a", "b", "c", "d", "e", "f", "g", "h", "i", "j", "k", "l", "m",
               "n", "o", "p", "q", "r", "s", "t", "u", "v", "w", "x", "y", "z">>

LowerChar(c) ==
    IF \E i \in 1..Len(UpperCase) : UpperCase[i] = c
    THEN LowerCase[CHOOSE i \in 1..Len(UpperCase) : UpperCase[i] = c]
    ELSE c

lower(s) == [i \in 1..Len(s) |-> LowerChar(s[i])]

startswith(s, prefix) ==
    Len(s) >= Len(prefix) /\ SubSeq(s, 1, Len(prefix)) = prefix

CT_JSON == <<"a", "p", "p", "l", "i", "c", "a", "t", "i", "o", "n", "/", "j", "s", "o", "n">>

CT_FORM == <<"a", "p", "p", "l", "i", "c", "a", "t", "i", "o", "n", "/", "x", "-", "w", "w", "w", "-", "f", "o", "r", "m", "-", "u", "r", "l", "e", "n", "c", "o", "d", "e", "d">>

CT_MULTIPART == <<"m", "u", "l", "t", "i", "p", "a", "r", "t", "/", "f", "o", "r", "m", "-", "d", "a", "t", "a">>

\* Variant of ContentTypeBranch: the content type is not lowercased.
ContentTypeBranch_CaseSensitive(content_type) ==
    IF content_type = <<>> THEN "missing"
    ELSE IF startswith(content_type, CT_JSON) THEN "json"
    ELSE IF startswith(content_type, CT_FORM)
            \/ startswith(content_type, CT_MULTIPART) THEN "form"
    ELSE "unsupported"

\* The branch of lines 118-134 a POST request takes.
ContentTypeBranch(content_type) ==
    IF content_type = <<>> THEN "missing"
    ELSE IF startswith(lower(content_type), CT_JSON) THEN "json"
    ELSE IF startswith(lower(content_type), CT_FORM)
            \/ startswith(lower(content_type), CT_MULTIPART) THEN "form"
    ELSE "unsupported"

(***************************************************************************)
(* urllib.parse.parse_qs(qs, True) on a token sequence                     *)
(***************************************************************************)
RECURSIVE Join(_)
\* The string a token sequence spells.
Join(tokens) == IF tokens = <<>> THEN "" ELSE Head(tokens) \o Join(Tail(tokens))

RECURSIVE SplitAmp(_, _)
\* qs.split('&'): the pieces, cur being the piece under construction.
SplitAmp(tokens, cur) ==
    IF tokens = <<>> THEN <<cur>>
    ELSE IF Head(tokens) = "&" THEN <<cur>> \o SplitAmp(Tail(tokens), <<>>)
    ELSE SplitAmp(Tail(tokens), Append(cur, Head(tokens)))

\* name_value.split('=', 1), with '' appended when there is no '='
\* (keep_blank_values).
SplitEq(nv) ==
    IF \E i \in 1..Len(nv) : nv[i] = "="
    THEN LET i == CHOOSE i \in 1..Len(nv) :
                     nv[i] = "=" /\ \A j \in 1..(i-1) : nv[j] # "="
         IN  <<Join(SubSeq(nv, 1, i-1)), Join(SubSeq(nv, i+1, Len(nv)))>>
    ELSE <<Join(nv), "">>

RECURSIVE QslOf(_)
QslOf(pieces) ==
    IF pieces = <<>> THEN <<>>
    ELSE IF Head(pieces) = <<>> THEN QslOf(Tail(pieces))
    ELSE <<SplitEq(Head(pieces))>> \o QslOf(Tail(pieces))

\* parse_qsl(qs, keep_blank_values=True): the <<name, value>> pairs in order;
\* an empty piece is skipped, a blank value is kept.
parse_qsl(qs) == QslOf(SplitAmp(qs, <<>>))

ValuesOf(pairs, k) ==
    LET IsK(p) == p[1] = k
        vs == SelectSeq(pairs, IsK)
    IN  [i \in 1..Len(vs) |-> vs[i][2]]

\* parse_qs(qs, True): each name with the list of its values, in order.
parse_qs(qs) == [k \in Keys(parse_qsl(qs)) |-> ValuesOf(parse_qsl(qs), k)]

\* Lines 141-145: kw[k] = v[0] for every item of parse_qs.
QueryKw(qs) == [k \in DOMAIN parse_qs(qs) |-> parse_qs(qs)[k][1]]

(***************************************************************************)
(* RequestHandler.__call__: the synchronous pieces                         *)
(***************************************************************************)
\* Variant of NeedsKw: the body or the query string is always consulted.
NeedsKw_Always(rh) == TRUE

\* Line 114: whether the body or the query string is consulted at all.
NeedsKw(rh) ==
    rh.has_var_kw_arg \/ rh.has_named_kw_args \/ rh.required_kw_args # <<>>

\* Variant of FilterNamed: nothing is filtered out.
FilterNamed_Skipped(rh, kw) == kw

\* Lines 152-157: without **kw, keep only the named keyword-only arguments.
FilterNamed(rh, kw) ==
    IF ~rh.has_var_kw_arg /\ rh.named_kw_args # <<>>
    THEN [name \in {rh.named_kw_args[i] : i \in 1..Len(rh.named_kw_args)}
                   \cap DOMAIN kw |-> kw[name]]
    ELSE kw

\* Variant of MergeMatchInfo: a key already there keeps its value.
MergeMatchInfo_KeepFirst(kw, match_info) ==
    [k \in DOMAIN kw \cup DOMAIN match_info |->
        IF k \in DOMAIN kw THEN kw[k] ELSE match_info[k]]

\* Lines 158-161: kw[k] = v for every path segment (a key already there is
\* logged and overwritten).
MergeMatchInfo(kw, match_info) ==
    [k \in DOMAIN kw \cup DOMAIN match_info |->
        IF k \in DOMAIN match_info THEN match_info[k] ELSE kw[k]]

\* Lines 162-163: kw['request'] = request.
InjectRequest(rh, kw, request) ==
    IF rh.has_request_arg
    THEN [k \in DOMAIN kw \cup {"request"} |->
              IF k = "request" THEN request.id ELSE kw[k]]
    ELSE kw

\* Lines 146-163: the argument mapping, from the base mapping of the body or
\* the query string (isnone: kw is None).
Bind(rh, request, isnone, base) ==
    InjectRequest(rh,
                  IF isnone
                  THEN [k \in DOMAIN request.match_info |-> request.match_info[k]]
                  ELSE MergeMatchInfo(FilterNamed(rh, base), request.match_info),
                  request)

RECURSIVE FirstMissing_Last(_, _)
\* Variant of FirstMissing: the loop runs on and the last missing name wins.
FirstMissing_Last(names, kw) ==
    IF names = <<>> THEN None
    ELSE IF FirstMissing_Last(Tail(names), kw) # None
    THEN FirstMissing_Last(Tail(names), kw)
    ELSE IF Head(names) \notin DOMAIN kw THEN Head(names)
    ELSE None

RECURSIVE FirstMissing(_, _)
\* Lines 164-169: the first name of required_kw_args that is not in kw
\* (None: every one is there).
FirstMissing(names, kw) ==
    IF names = <<>> THEN None
    ELSE IF Head(names) \notin DOMAIN kw THEN Head(names)
    ELSE FirstMissing(Tail(names), kw)

\* Line 172: whether Python binds the call fn(**kw): every key is a named
\* parameter (or there is a **kw), and every named parameter without default
\* has a key.  Otherwise the call raises TypeError.
AcceptsCall(fn, kw) ==
    /\ \A k \in DOMAIN kw :
          \/ has_var_kw_arg(fn)
          \/ \E i \in 1..Len(fn.params) :
                /\ fn.params[i].name = k
                /\ fn.params[i].kind \in {POSITIONAL_OR_KEYWORD, KEYWORD_ONLY}
    /\ \A i \in 1..Len(fn.params) :
          (fn.params[i].kind \in {POSITIONAL_OR_KEYWORD, KEYWORD_ONLY}
              /\ ~fn.params[i].default) => fn.params[i].name \in DOMAIN kw

(***************************************************************************)
(* What __call__ hands back to the transport                               *)
(***************************************************************************)
NoResult ==
    [kind |-> None, status |-> 0, text |-> <<>>, value |-> "",
     error |-> "", data |-> "", message |-> <<>>, exc |-> NoException]

\* return web.HTTPBadRequest(text)
HTTPBadRequest(text) ==
    [NoResult EXCEPT !.kind = "HTTPBadRequest", !.status = 400, !.text = text]

\* return r
Return(r) == [NoResult EXCEPT !.kind = "return", !.value = r]

\* return dict(error=e.error, data=e.data, message=e.message)
ErrorDict(e) ==
    [NoResult EXCEPT !.kind = "dict", !.error = e.error, !.data = e.data,
                     !.message = e.message]

\* The exception leaves the coroutine.
Raise(exc) == [NoResult EXCEPT !.kind = "raise", !.exc = exc]

\* Variant of OnHandlerException: `except Exception` for `except APIError`.
OnHandlerException_CatchAll(exc) == ErrorDict(exc)

\* Lines 171-176: an exception raised by the awaited handler.
OnHandlerException(exc) ==
    IF exc.type = "APIError" THEN ErrorDict(exc) ELSE Raise(exc)

(***************************************************************************)
(* A coroutine frame of __call__: one per request in flight.               *)
(*   pc       idle | await_json | await_post | await_func | done           *)
(*   route    the index in routes of the handler (self)                    *)
(*   request  the argument                                                 *)
(*   kw       the local kw once bound (bound = TRUE)                       *)
(*   args     the mapping self._func was called with (calls counts them)   *)
(*   thrown   the exception the call of self._func raised                  *)
(*   reads    the body accessors awaited so far, in order                  *)
(***************************************************************************)
NoRequest == Request(None, None, <<>>, Body(None, <<>>), <<>>, <<>>)

IdleTask ==
    [pc |-> "idle", route |-> 0, request |-> NoRequest, bound |-> FALSE,
     kw |-> <<>>, args |-> <<>>, calls |-> 0, thrown |-> NoException,
     reads |-> <<>>, result |-> NoResult]

Finish(task, result) == [task EXCEPT !.pc = "done", !.result = result]

\* Lines 146-172, from the base mapping to the call of the handler.
Proceed(task, rh, request, isnone, base) ==
    LET kw == Bind(rh, request, isnone, base)
        missing == FirstMissing(rh.required_kw_args, kw)
        bound == [task EXCEPT !.bound = TRUE, !.kw = kw]
        called == [bound EXCEPT !.args = kw, !.calls = @ + 1]
    IN  IF missing # None
        THEN Finish(bound, HTTPBadRequest(<<"Missing arguments: ", missing>>))
        ELSE IF ~AcceptsCall(rh.func, kw)
        THEN Finish([called EXCEPT !.thrown = Exception("TypeError")],
                    OnHandlerException(Exception("TypeError")))
        ELSE [called EXCEPT !.pc = "await_func"]

\* Lines 113-145, up to the first suspension point or to the base mapping.
Enter(task, rh, request) ==
    IF NeedsKw(rh) /\ request.method = "POST"
    THEN CASE ContentTypeBranch(request.content_type) = "missing" ->
                 Finish(task, HTTPBadRequest(<<"Missing Content-Type.">>))
           [] ContentTypeBranch(request.content_type) = "json" ->
                 [task EXCEPT !.pc = "await_json", !.reads = Append(@, "json")]
           [] ContentTypeBranch(request.content_type) = "form" ->
                 [task EXCEPT !.pc = "await_post", !.reads = Append(@, "post")]
           [] OTHER ->
                 Finish(task, HTTPBadRequest(<<"Unsupported Content-Type: ">>
                                             \o request.content_type))
    ELSE IF NeedsKw(rh) /\ request.method = "GET" /\ request.query_string # <<>>
    THEN Proceed(task, rh, request, FALSE, QueryKw(request.query_string))
    ELSE Proceed(task, rh, request, TRUE, <<>>)

\* Variant of OnReadError: the read is awaited again.
OnReadError_Retry(task, exc) == [task EXCEPT !.reads = Append(@, Head(@))]

\* The exception of a body read leaves the coroutine (line 124, line 130).
OnReadError(task, exc) == Finish(task, Raise(exc))

\* Variant of RequestOf: the request is kept on self, where the frame that
\* entered last (here: the highest running one) has overwritten it.
RequestOf_Shared(tsks, t) ==
    tsks[CHOOSE u \in DOMAIN tsks :
            /\ tsks[u].pc # "idle"
            /\ \A w \in DOMAIN tsks : tsks[w].pc # "idle" => w <= u].request

\* The local variable `request` of frame t.
RequestOf(tsks, t) == tsks[t].request

\* Lines 124-127, after request.json() completed.
AfterJson(task, rh, request) ==
    LET params == request_json(request)
    IN  IF params.raised # NoException THEN OnReadError(task, params.raised)
        ELSE IF ~params.isdict
        THEN Finish(task, HTTPBadRequest(<<"JSON body must be object.">>))
        ELSE Proceed(task, rh, request, FALSE, params.value)

\* Lines 130-131, after request.post() completed.
AfterPost(task, rh, request) ==
    LET params == request_post(request)
        kw == dict_of(params.value)
    IN  IF params.raised # NoException THEN OnReadError(task, params.raised)
        ELSE IF kw.raised # NoException THEN Finish(task, Raise(kw.raised))
        ELSE Proceed(task, rh, request, FALSE, kw.value)

\* The named segments of a route pattern: the words between "{" and "}".
PathKeys(path) ==
    {path[i] : i \in {j \in 2..(Len(path) - 1) :
                          path[j-1] = "{" /\ path[j+1] = "}"}}

(***************************************************************************)
(* Bounds and inputs                                                       *)
(***************************************************************************)
\* Requests in flight at once (SpecConc).
MaxTasks == 2

\* add_route calls that succeed (SpecReg).
MaxRoutes == 2

Tasks == 1..MaxTasks

\* Setting the two attributes by hand, as add_route only reads them with
\* getattr: the way to a method other than GET and POST.
Tag(method, path, func) ==
    IF method = "GET" THEN get(path, func)
    ELSE IF method = "POST" THEN post(path, func)
    ELSE [func EXCEPT !.method = method, !.route = path]

P_request == Param("request", POSITIONAL_OR_KEYWORD, FALSE)
P_id == Param("id", POSITIONAL_OR_KEYWORD, FALSE)
P_args == Param("args", VAR_POSITIONAL, FALSE)
K_name == Param("name", KEYWORD_ONLY, FALSE)
K_email == Param("email", KEYWORD_ONLY, FALSE)
K_id == Param("id", KEYWORD_ONLY, FALSE)
K_page == Param("page", KEYWORD_ONLY, TRUE)
K_request == Param("request", KEYWORD_ONLY, FALSE)
P_kw == Param("kw", VAR_KEYWORD, FALSE)

Positionals == {<<>>, <<P_request>>, <<P_id>>, <<P_id, P_request>>, <<P_request, P_id>>}

KeywordOnlys ==
    {<<>>, <<K_name>>, <<K_name, K_email>>, <<K_page>>, <<K_id, K_page>>, <<K_request>>}

VarKeywords == {<<>>, <<P_kw>>}

\* A signature names no parameter twice.
DistinctNames(params) ==
    \A i \in 1..Len(params) : \A j \in (i+1)..Len(params) :
        params[i].name # params[j].name

Signatures ==
    {sig \in {p \o k \o v : p \in Positionals, k \in KeywordOnlys, v \in VarKeywords} :
        DistinctNames(sig)}

Path_root == <<"/">>
Path_user == <<"/user/", "{", "id", "}">>
Path_blog == <<"/blog/", "{", "request", "}">>
Path_api == <<"/api/", "{", "name", "}", "/", "{", "id", "}">>

Paths == {Path_root, Path_user, Path_blog, Path_api}

Methods == {"GET", "POST", "PUT"}

\* The handler functions an application may register (Spec).
Handlers ==
    {Tag(m, path, Def("handler", sig)) : m \in Methods, path \in Paths, sig \in Signatures}

\* The value v as sent with the request of frame t.
V(t, v) == v \o "@" \o ToString(t)

ContentTypes ==
    { <<>>,
      CT_JSON,
      <<"a", "p", "p", "l", "i", "c", "a", "t", "i", "o", "n", "/", "j", "s", "o", "n", ";", " ", "c", "h", "a", "r", "s", "e", "t", "=", "u", "t", "f", "-", "8">>,
      <<"A", "p", "p", "l", "i", "c", "a", "t", "i", "o", "n", "/", "J", "S", "O", "N">>,
      <<"a", "p", "p", "l", "i", "c", "a", "t", "i", "o", "n", "/", "j", "s", "o">>,
      CT_FORM,
      <<"M", "u", "l", "t", "i", "p", "a", "r", "t", "/", "F", "o", "r", "m", "-", "D", "a", "t", "a", ";", " ", "b", "o", "u", "n", "d", "a", "r", "y", "=", "x">>,
      <<"t", "e", "x", "t", "/", "p", "l", "a", "i", "n">> }

\* {"id": "x", "name": "n", "evil": "1"}
JsonObject(t) ==
    Body("object", << <<"id", V(t, "x")>>, <<"name", V(t, "n")>>, <<"evil", V(t, "1")>> >>)

\* {}
JsonEmptyObject == Body("object", <<>>)

\* email=e&name=n&request=r
FormFields(t) ==
    Body("form", << <<"email", V(t, "e")>>, <<"name", V(t, "n")>>, <<"request", V(t, "r")>> >>)

\* A body whose read fails: the client went away.
Aborted == Body("abort", <<>>)

Bodies(t) ==
    { JsonObject(t),
      Body("object", << <<"name", V(t, "n")>>, <<"email", V(t, "e")>> >>),
      JsonEmptyObject,
      Body("array", <<>>),
      Body("malformed", <<>>),
      FormFields(t),
      Body("form", << <<"name", V(t, "n")>>, <<"name", V(t, "m")>> >>),
      Aborted }

\* name=n&name=m&page=
QueryRepeated(t) ==
    <<"name", "=", V(t, "n"), "&", "name", "=", V(t, "m"), "&", "page", "=">>

\* id=x&email=e&&evil&name=n
QueryMixed(t) ==
    <<"id", "=", V(t, "x"), "&", "email", "=", V(t, "e"), "&", "&", "evil", "&",
      "name", "=", V(t, "n")>>

QueryStrings(t) == {<<>>, QueryRepeated(t), QueryMixed(t)}

\* The segments the router matched for a route pattern.
MatchInfo(t, path) == [k \in PathKeys(path) |-> V(t, "seg-" \o k)]

RequestId(t) == "<Request " \o ToString(t) \o ">"

\* The requests the transport may hand to frame t for a route of pattern
\* path (Spec).
Requests(t, path) ==
    {Request(RequestId(t), "POST", ct, b, qs, MatchInfo(t, path)) :
        ct \in ContentTypes, b \in Bodies(t), qs \in {<<>>, QueryRepeated(t)}}
    \cup
    {Request(RequestId(t), m, ct, b, qs, MatchInfo(t, path)) :
        m \in {"GET", "PUT"}, ct \in {<<>>, CT_JSON},
        b \in {JsonObject(t), JsonEmptyObject}, qs \in QueryStrings(t)}

HandlerValues == {"ok"}

HandlerExceptions == {APIError("E1", "{}", "bad"), Exception("RuntimeError")}

(***************************************************************************)
(* Actions                                                                 *)
(***************************************************************************)
\* add_route(app, fn) at startup (the table holds MaxRoutes routes at most).
AddRoute(fn) ==
    /\ Len(add_route(routes, fn).routes) <= MaxRoutes
    /\ routes' = add_route(routes, fn).routes
    /\ startup' = [fn |-> fn, raised |-> add_route(routes, fn).raised]
    /\ UNCHANGED tasks

\* The transport resolved request r to routes[i] and calls the handler:
\* __call__ runs to its first suspension point or to its end.
Call(t, i, r) ==
    /\ tasks[t].pc = "idle"
    /\ routes[i].method = r.method
    /\ tasks' = [tasks EXCEPT ![t] =
                    Enter([IdleTask EXCEPT !.route = i, !.request = r],
                          routes[i].handler, r)]
    /\ UNCHANGED <<routes, startup>>

\* await request.json() completes.
ResumeJson(t) ==
    /\ tasks[t].pc = "await_json"
    /\ tasks' = [tasks EXCEPT ![t] =
                    AfterJson(tasks[t], routes[tasks[t].route].handler,
                              RequestOf(tasks, t))]
    /\ UNCHANGED <<routes, startup>>

\* await request.post() completes.
ResumePost(t) ==
    /\ tasks[t].pc = "await_post"
    /\ tasks' = [tasks EXCEPT ![t] =
                    AfterPost(tasks[t], routes[tasks[t].route].handler,
                              RequestOf(tasks, t))]
    /\ UNCHANGED <<routes, startup>>

\* await self._func(**kw) completes with the value r.
HandlerReturns(t, r) ==
    /\ tasks[t].pc = "await_func"
    /\ tasks' = [tasks EXCEPT ![t] = Finish(tasks[t], Return(r))]
    /\ UNCHANGED <<routes, startup>>

\* await self._func(**kw) raises exc.
HandlerRaises(t, exc) ==
    /\ tasks[t].pc = "await_func"
    /\ tasks' = [tasks EXCEPT ![t] = Finish([tasks[t] EXCEPT !.thrown = exc],
                                            OnHandlerException(exc))]
    /\ UNCHANGED <<routes, startup>>

\* The transport takes the outcome; the frame is gone.
Respond(t) ==
    /\ tasks[t].pc = "done"
    /\ tasks' = [tasks EXCEPT ![t] = IdleTask]
    /\ UNCHANGED <<routes, startup>>

\* The routes a new request of frame t may be resolved to: none while the
\* frame is running.
Resolvable(t) == IF tasks[t].pc = "idle" THEN 1..Len(routes) ELSE {}

\* The steps of frame t other than its call.
Step(t) ==
    \/ ResumeJson(t)
    \/ ResumePost(t)
    \/ \E r \in HandlerValues : HandlerReturns(t, r)
    \/ \E exc \in HandlerExceptions : HandlerRaises(t, exc)
    \/ Respond(t)

(***************************************************************************)
(* Spec: one application whose startup registered one handler function,    *)
(* serving one request at a time.                                          *)
(***************************************************************************)
Init ==
    \E fn \in Handlers :
        /\ routes = add_route(<<>>, fn).routes
        /\ startup = [fn |-> fn, raised |-> add_route(<<>>, fn).raised]
        /\ tasks = [t \in Tasks |-> IdleTask]

Next ==
    \/ \E i \in Resolvable(1) : \E r \in Requests(1, routes[i].path) : Call(1, i, r)
    \/ Step(1)

Spec == Init /\ [][Next]_vars

(***************************************************************************)
(* SpecReg: the startup of an application.  It calls add_route on the      *)
(* functions of a handlers module, in any order and any number of times,   *)
(* tagged or not, and the routes registered so far serve requests.         *)
(***************************************************************************)
RegHandlers ==
    { get(Path_root, Def("index", <<P_request>>)),
      get(Path_user, Def("user", <<P_id, P_request>>)),
      post(Path_root, Def("create", <<P_request, P_args, K_name, P_kw>>)),
      get(Path_user, Def("bad_order", <<P_request, P_id>>)),
      post(Path_user, Def("bad_order_kw", <<P_request, P_id, K_name>>)),
      Def("helper", <<P_request>>),
      [Def("method_only", <<P_request>>) EXCEPT !.method = "GET"],
      [Def("route_only", <<P_request>>) EXCEPT !.route = Path_root] }

RegRequests(t, path) ==
    { Request(RequestId(t), "POST", CT_JSON, JsonObject(t), <<>>, MatchInfo(t, path)),
      Request(RequestId(t), "POST", CT_FORM, FormFields(t), <<>>, MatchInfo(t, path)),
      Request(RequestId(t), "GET", <<>>, JsonEmptyObject, QueryRepeated(t),
              MatchInfo(t, path)) }

NoFunction == Def(None, <<>>)

InitReg ==
    /\ routes = <<>>
    /\ startup = [fn |-> NoFunction, raised |-> NoException]
    /\ tasks = [t \in Tasks |-> IdleTask]

NextReg ==
    \/ \E fn \in RegHandlers : AddRoute(fn)
    \/ \E i \in Resolvable(1) : \E r \in RegRequests(1, routes[i].path) : Call(1, i, r)
    \/ Step(1)

SpecReg == InitReg /\ [][NextReg]_vars

(***************************************************************************)
(* SpecConc: the routes of a handlers module and MaxTasks requests in       *)
(* flight, their frames interleaved at the suspension points.              *)
(***************************************************************************)
ConcModule ==
    << post(Path_blog, Def("comment", <<P_request, K_name, K_email>>)),
       Def("helper", <<P_id>>),
       get(Path_api, Def("search", <<P_request, K_id, K_page>>)),
       post(Path_user, Def("update", <<P_request, K_name, P_kw>>)),
       get(Path_user, Def("user", <<P_id, P_request>>)) >>

ConcRequests(t, path) ==
    { Request(RequestId(t), "POST", CT_JSON, JsonObject(t), <<>>, MatchInfo(t, path)),
      Request(RequestId(t), "POST", CT_FORM, FormFields(t), <<>>, MatchInfo(t, path)),
      Request(RequestId(t), "POST", CT_JSON, Aborted, <<>>, MatchInfo(t, path)),
      Request(RequestId(t), "POST", CT_FORM, Aborted, <<>>, MatchInfo(t, path)),
      Request(RequestId(t), "GET", <<>>, JsonEmptyObject, QueryMixed(t),
              MatchInfo(t, path)),
      Request(RequestId(t), "GET", <<>>, JsonEmptyObject, <<>>, MatchInfo(t, path)) }

InitConc ==
    /\ routes = add_routes(<<>>, ConcModule).routes
    /\ startup = [fn |-> ConcModule[Len(ConcModule)],
                  raised |-> add_routes(<<>>, ConcModule).raised]
    /\ tasks = [t \in Tasks |-> IdleTask]

NextConc ==
    \E t \in Tasks :
        \/ \E i \in Resolvable(t) : \E r \in ConcRequests(t, routes[i].path) : Call(t, i, r)
        \/ Step(t)

SpecConc == InitConc /\ [][NextConc]_vars

(***************************************************************************)
(* Properties.  They are stated on the declared signature, the request and *)
(* the outcome, not through the operators of __call__ above.               *)
(***************************************************************************)
\* The function behind the handler frame t runs.
FuncOf(t) == routes[tasks[t].route].handler.func

KeywordOnlyNames(fn) ==
    {fn.params[i].name : i \in {j \in 1..Len(fn.params) : fn.params[j].kind = KEYWORD_ONLY}}

DeclaresVarKeyword(fn) == \E i \in 1..Len(fn.params) : fn.params[i].kind = VAR_KEYWORD

DeclaresRequest(fn) == \E i \in 1..Len(fn.params) : fn.params[i].name = "request"

\* The handler needs named arguments.
NeedsNamed(fn) == KeywordOnlyNames(fn) # {} \/ DeclaresVarKeyword(fn)

\* The body or the query string of the request of frame t gives a base
\* mapping.
GivesBase(t) ==
    \/ tasks[t].request.method = "POST"
    \/ tasks[t].request.method = "GET" /\ tasks[t].request.query_string # <<>>

\* The values the body of a request carries for key k.
BodyValues(request, k) ==
    {request.body.fields[i][2] :
        i \in {j \in 1..Len(request.body.fields) : request.body.fields[j][1] = k}}

\* C1 as claimed: whenever a handler that declares a keyword-only or a
\* var-keyword parameter is called for a request that gave a base mapping,
\* every path segment key is in the arguments with the path segment's value.
C1_AsClaimed ==
    \A t \in Tasks :
        (tasks[t].calls = 1 /\ NeedsNamed(FuncOf(t)) /\ GivesBase(t)) =>
            \A k \in DOMAIN tasks[t].request.match_info :
                /\ k \in DOMAIN tasks[t].args
                /\ tasks[t].args[k] = tasks[t].request.match_info[k]

\* C1 (amended): as C1_AsClaimed for every path segment key other than the
\* key `request` of a handler that accepts the request object; there the key
\* `request` holds the request object.
C1_PathSegmentValuesWin ==
    \A t \in Tasks :
        (tasks[t].calls = 1 /\ NeedsNamed(FuncOf(t)) /\ GivesBase(t)) =>
            \A k \in DOMAIN tasks[t].request.match_info :
                /\ k \in DOMAIN tasks[t].args
                /\ tasks[t].args[k] =
                      IF k = "request" /\ DeclaresRequest(FuncOf(t))
                      THEN tasks[t].request.id
                      ELSE tasks[t].request.match_info[k]

\* A handler was called with the path segment's id although the JSON body
\* and, in another run, the query string gave another id.
C1_Witness ==
    \E t \in Tasks :
        /\ tasks[t].calls = 1
        /\ NeedsNamed(FuncOf(t))
        /\ tasks[t].request.method = "POST"
        /\ tasks[t].request.body.kind = "object"
        /\ "id" \in DOMAIN tasks[t].request.match_info
        /\ BodyValues(tasks[t].request, "id") # {}
        /\ tasks[t].request.match_info["id"] \notin BodyValues(tasks[t].request, "id")
        /\ tasks[t].args["id"] = tasks[t].request.match_info["id"]

\* C2: whenever a handler without var-keyword parameter is called, every
\* key of its arguments is a keyword-only parameter name, a path segment key
\* or `request`.
C2_NoSmuggledKeys ==
    \A t \in Tasks :
        (tasks[t].calls = 1 /\ ~DeclaresVarKeyword(FuncOf(t))) =>
            DOMAIN tasks[t].args \subseteq
                KeywordOnlyNames(FuncOf(t))
                    \cup DOMAIN tasks[t].request.match_info \cup {"request"}

\* The keys the query string of a request names: the words that start a
\* piece.
QueryKeys(request) ==
    {request.query_string[i] :
        i \in {j \in 1..Len(request.query_string) :
                  /\ request.query_string[j] \notin {"&", "="}
                  /\ (j = 1 \/ request.query_string[j-1] = "&")}}

\* A handler without var-keyword parameter was called with a key of its own
\* from the body (or the query string), and without the key `evil` the same
\* body (or query string) carried.
C2_Witness ==
    \E t \in Tasks :
        /\ tasks[t].calls = 1
        /\ ~DeclaresVarKeyword(FuncOf(t))
        /\ "name" \in DOMAIN tasks[t].args
        /\ "evil" \notin DOMAIN tasks[t].args
        /\ \/ /\ tasks[t].reads # <<>>
              /\ BodyValues(tasks[t].request, "evil") # {}
           \/ /\ tasks[t].request.method = "GET"
              /\ "evil" \in QueryKeys(tasks[t].request)

\* The mapping of the path segments of frame t, with the request object
\* under `request` when the handler accepts it.
SegmentsAndRequest(t) ==
    [k \in DOMAIN tasks[t].request.match_info
            \cup (IF DeclaresRequest(FuncOf(t)) THEN {"request"} ELSE {}) |->
        IF k = "request" /\ DeclaresRequest(FuncOf(t))
        THEN tasks[t].request.id
        ELSE tasks[t].request.match_info[k]]

SameLetter(a, b) ==
    \/ a = b
    \/ \E i \in 1..Len(UpperCase) : {a, b} = {UpperCase[i], LowerCase[i]}

\* prefix is a prefix of s, whatever the case of the letters.
HasPrefixIgnoringCase(s, prefix) ==
    /\ Len(prefix) <= Len(s)
    /\ \A i \in 1..Len(prefix) : SameLetter(s[i], prefix[i])

IsJsonType(ct) == HasPrefixIgnoringCase(ct, CT_JSON)

IsFormType(ct) ==
    HasPrefixIgnoringCase(ct, CT_FORM) \/ HasPrefixIgnoringCase(ct, CT_MULTIPART)

\* C4: for a handler that needs named arguments and a POST request, the body
\* source follows the content type's prefix, whatever its case: none gives
\* BadRequest "Missing Content-Type.", one that is neither JSON nor a form
\* gives BadRequest "Unsupported Content-Type: <type>", a JSON type reads
\* the body as JSON (and a form type as a form), and a JSON body that is an
\* array gives BadRequest "JSON body must be object."; the handler is not
\* called in these three cases.
C4_ContentTypeDispatch ==
    \A t \in Tasks :
        (tasks[t].pc # "idle" /\ NeedsNamed(FuncOf(t))
            /\ tasks[t].request.method = "POST") =>
            LET ct == tasks[t].request.content_type
            IN  /\ ct = <<>> =>
                      /\ tasks[t].pc = "done"
                      /\ tasks[t].result = HTTPBadRequest(<<"Missing Content-Type.">>)
                      /\ tasks[t].reads = <<>>
                      /\ tasks[t].calls = 0
                /\ (ct # <<>> /\ ~IsJsonType(ct) /\ ~IsFormType(ct)) =>
                      /\ tasks[t].pc = "done"
                      /\ tasks[t].result =
                            HTTPBadRequest(<<"Unsupported Content-Type: ">> \o ct)
                      /\ tasks[t].reads = <<>>
                      /\ tasks[t].calls = 0
                /\ (ct # <<>> /\ IsJsonType(ct)) => tasks[t].reads = <<"json">>
                /\ (ct # <<>> /\ ~IsJsonType(ct) /\ IsFormType(ct)) =>
                      tasks[t].reads = <<"post">>
                /\ (ct # <<>> /\ IsJsonType(ct) /\ tasks[t].pc # "await_json"
                        /\ tasks[t].request.body.kind = "array") =>
                      /\ tasks[t].pc = "done"
                      /\ tasks[t].result = HTTPBadRequest(<<"JSON body must be object.">>)
                      /\ tasks[t].calls = 0

\* A JSON array sent as "Application/JSON" was answered "JSON body must be
\* object.".
C4_Witness ==
    \E t \in Tasks :
        /\ tasks[t].pc = "done"
        /\ NeedsNamed(FuncOf(t))
        /\ tasks[t].request.method = "POST"
        /\ tasks[t].request.content_type # CT_JSON
        /\ Len(tasks[t].request.content_type) = Len(CT_JSON)
        /\ IsJsonType(tasks[t].request.content_type)
        /\ tasks[t].request.body.kind = "array"
        /\ tasks[t].result = HTTPBadRequest(<<"JSON body must be object.">>)

\* The keyword-only parameters without default, as positions in the
\* signature.
RequiredAt(fn) ==
    {i \in 1..Len(fn.params) :
        fn.params[i].kind = KEYWORD_ONLY /\ ~fn.params[i].default}

\* Those of them the mapping kw lacks.
MissingAt(fn, kw) == {i \in RequiredAt(fn) : fn.params[i].name \notin DOMAIN kw}

\* C5: once the mapping of a frame is bound: if it lacks a required
\* argument, the outcome is BadRequest "Missing arguments: <name>" for the
\* first such name in declaration order, and the handler is not called;
\* otherwise the handler is called, once, with the mapping.
C5_FirstMissingArgument ==
    \A t \in Tasks :
        tasks[t].bound =>
            LET fn == FuncOf(t)
                missing == MissingAt(fn, tasks[t].kw)
            IN  /\ missing # {} =>
                      /\ tasks[t].pc = "done"
                      /\ tasks[t].calls = 0
                      /\ \E i \in missing :
                            /\ \A j \in missing : i <= j
                            /\ tasks[t].result =
                                  HTTPBadRequest(<<"Missing arguments: ", fn.params[i].name>>)
                /\ missing = {} =>
                      /\ tasks[t].calls = 1
                      /\ tasks[t].args = tasks[t].kw
                      /\ tasks[t].result.kind # "HTTPBadRequest"

\* Two required arguments were missing and the first one was reported.
C5_Witness ==
    \E t \in Tasks :
        /\ tasks[t].bound
        /\ Cardinality(MissingAt(FuncOf(t), tasks[t].kw)) = 2
        /\ tasks[t].result = HTTPBadRequest(<<"Missing arguments: ", "name">>)
        /\ tasks[t].calls = 0

\* C6: an APIError of the handler becomes the object {error, data, message}
\* of its fields, neither a BadRequest nor a raised exception; any other
\* exception of the handler leaves __call__ as it is; and the object is the
\* outcome of nothing else: what __call__ itself refuses is a BadRequest of
\* status 400.
C6_FailureChannels ==
    \A t \in Tasks :
        /\ (tasks[t].pc = "done" /\ tasks[t].thrown.type = "APIError") =>
              /\ tasks[t].result.kind = "dict"
              /\ tasks[t].result.error = tasks[t].thrown.error
              /\ tasks[t].result.data = tasks[t].thrown.data
              /\ tasks[t].result.message = tasks[t].thrown.message
              /\ tasks[t].result.status # 400
              /\ tasks[t].result.exc = NoException
        /\ (tasks[t].pc = "done" /\ tasks[t].thrown.type \notin {None, "APIError"}) =>
              /\ tasks[t].result.kind = "raise"
              /\ tasks[t].result.exc = tasks[t].thrown
        /\ tasks[t].result.kind = "dict" =>
              tasks[t].thrown.type = "APIError" /\ tasks[t].calls = 1
        /\ (tasks[t].pc = "done" /\ tasks[t].calls = 0
                /\ tasks[t].result.kind # "raise") =>
              /\ tasks[t].result.kind = "HTTPBadRequest"
              /\ tasks[t].result.status = 400
              /\ tasks[t].result.error = ""
              /\ tasks[t].result.message = <<>>

\* The handler raised APIError("E1", {}, "bad") and the outcome is the
\* object.
C6_Witness ==
    \E t \in Tasks :
        /\ tasks[t].pc = "done"
        /\ tasks[t].thrown = APIError("E1", "{}", "bad")
        /\ tasks[t].result.kind = "dict"
        /\ tasks[t].result.error = "E1"
        /\ tasks[t].result.message = <<"bad">>

\* C7 as claimed: for a handler that needs named arguments, a POST request
\* of a JSON content type whose body cannot be decoded ends in a BadRequest
\* of status 400, and the handler is not called.
C7_AsClaimed ==
    \A t \in Tasks :
        (tasks[t].pc = "done" /\ NeedsNamed(FuncOf(t))
            /\ tasks[t].request.method = "POST"
            /\ IsJsonType(tasks[t].request.content_type)
            /\ tasks[t].request.body.kind = "malformed") =>
            /\ tasks[t].result.kind = "HTTPBadRequest"
            /\ tasks[t].result.status = 400
            /\ tasks[t].calls = 0

\* C10: a frame calls the handler at most once and awaits at most one body
\* read; it calls the handler only with a bound mapping that has every
\* required argument; after a BadRequest, or after a body read that failed,
\* the handler was not called and nothing was read again.
C10_SingleAttempt ==
    \A t \in Tasks :
        /\ tasks[t].calls <= 1
        /\ Len(tasks[t].reads) <= 1
        /\ tasks[t].calls = 1 =>
              /\ tasks[t].bound
              /\ MissingAt(FuncOf(t), tasks[t].kw) = {}
              /\ tasks[t].args = tasks[t].kw
        /\ tasks[t].result.kind = "HTTPBadRequest" =>
              tasks[t].pc = "done" /\ tasks[t].calls = 0
        /\ (tasks[t].reads # <<>> /\ tasks[t].request.body.kind = "abort"
                /\ tasks[t].pc \notin {"await_json", "await_post"}) =>
              /\ tasks[t].pc = "done"
              /\ tasks[t].calls = 0
              /\ ~tasks[t].bound
              /\ tasks[t].result = Raise(Exception("ConnectionResetError"))

\* The client went away during the body read: the frame ended with that
\* failure, one read, no call.
C10_Witness ==
    \E t \in Tasks :
        /\ tasks[t].pc = "done"
        /\ tasks[t].request.body.kind = "abort"
        /\ Len(tasks[t].reads) = 1
        /\ tasks[t].calls = 0
        /\ tasks[t].result.kind = "raise"

\* What the claim says add_route must refuse: a function without method tag
\* or without path tag, or with an ordinary named parameter after `request`.
Refused(fn) ==
    \/ fn.method = None
    \/ fn.route = None
    \/ \E i \in 1..Len(fn.params) : \E j \in (i+1)..Len(fn.params) :
          /\ fn.params[i].name = "request"
          /\ fn.params[j].kind = POSITIONAL_OR_KEYWORD

\* C8, a step: an add_route call on a function to refuse raises ValueError
\* and leaves the table as it was; on any other function it raises nothing
\* and appends the function's route; and a step of a request neither touches
\* the table nor raises a registration error.
C8_Step ==
    /\ (startup' # startup \/ routes' # routes) =>
          /\ tasks' = tasks
          /\ Refused(startup'.fn) =>
                /\ startup'.raised.type = "ValueError"
                /\ routes' = routes
          /\ ~Refused(startup'.fn) =>
                /\ startup'.raised = NoException
                /\ Len(routes') = Len(routes) + 1
                /\ SubSeq(routes', 1, Len(routes)) = routes
                /\ routes'[Len(routes')].handler.func = startup'.fn
                /\ routes'[Len(routes')].method = startup'.fn.method
                /\ routes'[Len(routes')].path = startup'.fn.route
    /\ tasks' # tasks => (routes' = routes /\ startup' = startup)

\* C8, a state: no function to refuse is in the table, and no frame has
\* ended in a ValueError.
C8_State ==
    /\ \A i \in 1..Len(routes) : ~Refused(routes[i].handler.func)
    /\ \A t \in Tasks : tasks[t].result.exc.type # "ValueError"

\* C8: add_route fails, leaving the route table as it was, exactly for a
\* function without method tag or path tag or with an ordinary named
\* parameter after `request`; a function whose `request` is last is
\* registered; the check is made at registration only, and no call of a
\* registered handler raises a signature or registration error.
C8_RegistrationChecksSignature == [][C8_Step]_vars /\ []C8_State

\* With a route in the table, add_route refused a function with a parameter
\* after `request`, and a registered handler whose `request` is last was
\* called.
C8_Witness ==
    /\ startup.raised.type = "ValueError"
    /\ startup.fn.method # None
    /\ startup.fn.route # None
    /\ Len(routes) >= 1
    /\ \E t \in Tasks :
          /\ tasks[t].calls = 1
          /\ FuncOf(t).params[Len(FuncOf(t).params)].name = "request"

\* What a request carries: its identity, its path segments' values and the
\* words of its body and of its query string.
OwnWords(request) ==
    {request.id}
        \cup {request.match_info[k] : k \in DOMAIN request.match_info}
        \cup DOMAIN request.match_info
        \cup {request.body.fields[i][1] : i \in 1..Len(request.body.fields)}
        \cup {request.body.fields[i][2] : i \in 1..Len(request.body.fields)}
        \cup {request.query_string[i] : i \in 1..Len(request.query_string)}
        \cup {"request"}

\* The value the query string of a request gives key k: the word after the
\* "=" of the first piece that k starts, "" when there is none.
QueryValue(request, k) ==
    LET qs == request.query_string
        Starts(j) == qs[j] = k /\ (j = 1 \/ qs[j-1] = "&")
        j == CHOOSE j \in 1..Len(qs) : Starts(j) /\ \A i \in 1..(j-1) : ~Starts(i)
    IN  IF j + 2 <= Len(qs) /\ qs[j+1] = "=" /\ qs[j+2] \notin {"&", "="}
        THEN qs[j+2]
        ELSE ""

\* The mapping section 4.2 of the design describes for the request of frame
\* t alone: the named arguments its body (POST) or its query string (GET)
\* gives (a body of another kind than its content type announces gives
\* none), cut down to the keyword-only names unless the handler has a
\* var-keyword parameter, then its path segments, then its request object.
OwnMapping(t) ==
    LET fn == FuncOf(t)
        request == tasks[t].request
        given == IF ~(NeedsNamed(fn) /\ GivesBase(t)) THEN {}
                 ELSE IF request.method = "GET" THEN QueryKeys(request)
                 ELSE IF \/ IsJsonType(request.content_type)
                            /\ request.body.kind = "object"
                         \/ IsFormType(request.content_type)
                            /\ request.body.kind = "form"
                 THEN {request.body.fields[i][1] : i \in 1..Len(request.body.fields)}
                 ELSE {}
        kept == IF DeclaresVarKeyword(fn) THEN given
                ELSE given \cap KeywordOnlyNames(fn)
    IN  [k \in kept \cup DOMAIN request.match_info
                \cup (IF DeclaresRequest(fn) THEN {"request"} ELSE {}) |->
            IF k = "request" /\ DeclaresRequest(fn) THEN request.id
            ELSE IF k \in DOMAIN request.match_info THEN request.match_info[k]
            ELSE IF request.method = "POST"
            THEN CHOOSE v \in BodyValues(request, k) : TRUE
            ELSE QueryValue(request, k)]

\* C9: with several requests in flight, a handler is called with the mapping
\* of its own request, with keys and values of its own request only (its
\* path segments, its request object), and the classification fields of every registered handler are those of
\* its function's signature, as set at registration.
C9_RequestLocalMapping ==
    /\ \A t \in Tasks :
          tasks[t].calls = 1 =>
              /\ tasks[t].args = OwnMapping(t)
              /\ \A k \in DOMAIN tasks[t].args :
                    /\ k \in OwnWords(tasks[t].request)
                    /\ tasks[t].args[k] \in OwnWords(tasks[t].request)
              /\ \A k \in DOMAIN tasks[t].request.match_info :
                    /\ k \in DOMAIN tasks[t].args
                    /\ tasks[t].args[k] =
                          IF k = "request" /\ DeclaresRequest(FuncOf(t))
                          THEN tasks[t].request.id
                          ELSE tasks[t].request.match_info[k]
              /\ DeclaresRequest(FuncOf(t)) =>
                    /\ "request" \in DOMAIN tasks[t].args
                    /\ tasks[t].args["request"] = tasks[t].request.id
    /\ \A i \in 1..Len(routes) :
          LET h == routes[i].handler
          IN  /\ h.has_request_arg = DeclaresRequest(h.func)
              /\ h.has_var_kw_arg = DeclaresVarKeyword(h.func)
              /\ {h.named_kw_args[j] : j \in 1..Len(h.named_kw_args)}
                    = KeywordOnlyNames(h.func)
              /\ {h.required_kw_args[j] : j \in 1..Len(h.required_kw_args)}
                    = {h.func.params[j].name : j \in RequiredAt(h.func)}

\* Two frames, each resumed from its own body read while the other was in
\* flight, have called the handler, each with its own arguments.
C9_Witness ==
    /\ tasks[1].pc = "await_func"
    /\ tasks[2].pc = "await_func"
    /\ tasks[1].reads # <<>>
    /\ tasks[2].reads # <<>>
    /\ tasks[1].args # tasks[2].args
    /\ tasks[1].args["request"] = RequestId(1)
    /\ tasks[2].args["request"] = RequestId(2)

====
